---- MODULE Spec2Model ----
(***************************************************************************)
(* Model of bundle.py: the Windows packaging script of the GTK4            *)
(* application.  One run of the script is one process; runs follow each    *)
(* other against the same file system (cargo target directory, toolkit     *)
(* cache, bundle directory, zip archive).                                  *)
(*                                                                         *)
(* Encodings.  A path is a sequence of components, a component a sequence  *)
(* of string tokens (<<"gtk-4", ".dll">> is the file name gtk-4.dll).  A   *)
(* JSON value is a record tagged by t ("null", "str", "int", "list",      *)
(* "obj"); an object's v is a record of its keys.  An environment maps a   *)
(* variable name to the sequence of its ';'-separated entries, <<>> when   *)
(* the variable is unset.                                                  *)
(***************************************************************************)
EXTENDS Integers, Sequences, FiniteSets, TLC

VARIABLES
    pc,            \* position of the running process in bundle(), "idle" before the first run
    runs,          \* number of processes started so far
    args,          \* argparse result of the running process
    environ,       \* os.environ of the running process
    cargo_meta,    \* CargoMetadata returned by get_cargo_metadata
    gtk_bin_dir,   \* the local gtk_bin_dir of bundle()
    rust_bin,      \* the path returned by build_rust_binary
    exitCode,      \* exit code of the process once pc = "exited"
    raised,        \* the SystemExit or exception that ended the process
    cacheExists,   \* <target>/gtk-from-github exists
    cacheFiles,    \* files below <target>/gtk-from-github
    gtkFixedExists, \* C:/gtk-build/gtk/x64/release/bin exists
    gtkFixedFiles, \* files below C:/gtk-build/gtk/x64/release
    bundleExists,  \* <target>/release/<name>-bundled exists
    bundleFiles,   \* files below the bundle directory
    settingsText,  \* lines of share/gtk-4.0/settings.ini in the bundle directory
    zipExists,     \* <target>/release/<name>-bundled.zip exists
    zipFiles,      \* members of the zip archive
    metadataOut,   \* what `cargo metadata` returned to this process
    response,      \* what the release-listing request returned to this process
    buildStdout,   \* the captured stdout of `cargo build`
    childEnv,      \* env= handed to the cargo build subprocesses
    cargoRuns,     \* the cargo build invocations of this process, in order
    net,           \* the network requests of this process, in order
    steps,         \* the statements of bundle() this process has executed, in order
    bundleAtStart, \* bundleFiles when the process started
    cacheAtStart,  \* cacheExists when the process started
    downloads,     \* archive downloads attempted over all runs
    extractions    \* complete extractions of the archive over all runs

vars == <<pc, runs, args, environ, cargo_meta, gtk_bin_dir, rust_bin, exitCode,
          raised, cacheExists, cacheFiles, gtkFixedExists, gtkFixedFiles,
          bundleExists, bundleFiles, settingsText, zipExists, zipFiles,
          metadataOut, response, buildStdout, childEnv, cargoRuns, net, steps,
          bundleAtStart, cacheAtStart, downloads, extractions>>

\* ---------------------------------------------------------------- bounds

MaxRuns == 2

MaxMsgs == 2

MaxAssets == 2

\* ------------------------------------------------------------ sequences

Range(s) == {s[i] : i \in DOMAIN s}

Last(s) == s[Len(s)]

Front(s) == SubSeq(s, 1, Len(s) - 1)

SeqsUpTo(S, n) == UNION {[1..k -> S] : k \in 0..n}

\* ----------------------------------------------------------- JSON values

JNull == [t |-> "null"]

JStr(s) == [t |-> "str", v |-> s]

JInt(n) == [t |-> "int", v |-> n]

JList(s) == [t |-> "list", v |-> s]

JObj(r) == [t |-> "obj", v |-> r]

\* obj[key] raises KeyError when the key is absent
HasKey(obj, key) == key \in DOMAIN obj.v

\* Python truthiness of a JSON value: None, "", 0, [] and {} are falsy
Truthy(j) ==
    CASE j.t = "null" -> FALSE
      [] j.t = "str" -> j.v # <<>>
      [] j.t = "int" -> j.v # 0
      [] j.t = "list" -> j.v # <<>>
      [] j.t = "obj" -> DOMAIN j.v # {}

\* ---------------------------------------------------------------- paths

Up == <<"..">>

\* Path.joinpath
joinpath(p, rel) == p \o rel

RECURSIVE ResolveInto(_, _)
ResolveInto(done, rest) ==
    IF rest = <<>> THEN done
    ELSE IF rest[1] = Up /\ done # <<>>
         THEN ResolveInto(Front(done), Tail(rest))
         ELSE ResolveInto(Append(done, rest[1]), Tail(rest))

\* Path.resolve of an absolute path: ".." steps are folded away
resolve(p) == ResolveInto(<<>>, p)

\* Path.name
PathName(p) == Last(p)

\* Path.glob("*.dll") matches the names that end in .dll
IsDll(component) == Last(component) = ".dll"

\* p lies below the directory dir
IsUnder(dir, p) == Len(p) > Len(dir) /\ SubSeq(p, 1, Len(dir)) = dir

\* ------------------------------------------------------------ exceptions

NoError == [type |-> "none", what |-> "none"]

Err(type, what) == [type |-> type, what |-> what]

\* exit(1)
SystemExit1(what) == Err("SystemExit", what)

\* ------------------------------------------------------- file locations

TargetDir == <<<<"C:">>, <<"proj">>, <<"target">>>>

FixedGtkBin ==
    <<<<"C:">>, <<"gtk-build">>, <<"gtk">>, <<"x64">>, <<"release">>, <<"bin">>>>

FixedGtkRoot == Front(FixedGtkBin)

CacheRoot == joinpath(TargetDir, <<<<"gtk-from-github">>>>)

\* the files of a gvsbuild toolkit tree, relative to its root
DllGtk == <<<<"bin">>, <<"gtk-4", ".dll">>>>

DllGlib == <<<<"bin">>, <<"glib-2.0", ".dll">>>>

GdbusExe == <<<<"bin">>, <<"gdbus", ".exe">>>>

SchemasCompiled ==
    <<<<"share">>, <<"glib-2.0">>, <<"schemas">>, <<"gschemas", ".compiled">>>>

\* the members of the release archive, in the order ZipFile.extractall writes them
ArchiveMembers == <<DllGtk, DllGlib, GdbusExe, SchemasCompiled>>

\* every file of the machine, by absolute path
AbsFiles ==
    {joinpath(FixedGtkRoot, f) : f \in gtkFixedFiles}
        \cup {joinpath(CacheRoot, f) : f \in cacheFiles}

\* Path.exists of a file
FileExists(p) == p \in AbsFiles

\* Path.exists of a directory
DirExists(p) ==
    \/ p = CacheRoot /\ cacheExists
    \/ p = FixedGtkBin /\ gtkFixedExists
    \/ \E f \in AbsFiles : IsUnder(p, f)

\* Path.glob("*.dll") in a directory
GlobDll(dir) == {f \in AbsFiles : Front(f) = dir /\ IsDll(Last(f))}

\* the paths of the bundle, relative to the bundle directory
SchemasOutDir == <<<<"share">>, <<"glib-2.0">>, <<"schemas">>>>

SettingsIni == <<<<"share">>, <<"gtk-4.0">>, <<"settings", ".ini">>>>

SettingsLines == <<"[Settings]", "gtk-font-name=Segoe UI 10">>

\* ------------------------------------------------------ get_cargo_metadata

NoPath == <<>>

NoMeta == [target_directory |-> NoPath, package_name |-> ""]

MetaRaise(e) == [error |-> e, meta |-> NoMeta]

\* PackagesOf without the check of the length of the list
PackagesOfAnyLength(metadata, target_dir) ==
    IF ~HasKey(metadata, "packages") THEN MetaRaise(Err("KeyError", "packages"))
    ELSE LET packages == metadata.v.packages IN
      IF ~Truthy(packages) THEN MetaRaise(Err("ValueError", "packages"))
      ELSE IF packages.t # "list" THEN MetaRaise(Err("ValueError", "packages"))
      ELSE LET package == packages.v[1] IN
        IF package.t # "obj" THEN MetaRaise(Err("TypeError", "subscript"))
        ELSE IF ~HasKey(package, "name") THEN MetaRaise(Err("KeyError", "name"))
        ELSE IF package.v.name.t # "str" THEN MetaRaise(Err("ValueError", "name"))
        ELSE [error |-> NoError,
              meta |-> [target_directory |-> target_dir,
                        package_name |-> package.v.name.v]]

\* the checks on metadata["packages"] and on its only entry
PackagesOf(metadata, target_dir) ==
    IF ~HasKey(metadata, "packages") THEN MetaRaise(Err("KeyError", "packages"))
    ELSE LET packages == metadata.v.packages IN
      IF ~Truthy(packages) THEN MetaRaise(Err("ValueError", "packages"))
      ELSE IF packages.t # "list" THEN MetaRaise(Err("ValueError", "packages"))
      ELSE IF Len(packages.v) # 1 THEN MetaRaise(Err("ValueError", "packages"))
      ELSE LET package == packages.v[1] IN
        IF package.t # "obj" THEN MetaRaise(Err("TypeError", "subscript"))
        ELSE IF ~HasKey(package, "name") THEN MetaRaise(Err("KeyError", "name"))
        ELSE IF package.v.name.t = "null" THEN MetaRaise(Err("ValueError", "name"))
        ELSE IF package.v.name.t # "str" THEN MetaRaise(Err("ValueError", "name"))
        ELSE [error |-> NoError,
              meta |-> [target_directory |-> target_dir,
                        package_name |-> package.v.name.v]]

\* get_cargo_metadata on what the `cargo metadata` subprocess returned
get_cargo_metadata(out) ==
    IF out.returncode # 0 THEN MetaRaise(Err("CalledProcessError", "cargo metadata"))
    ELSE LET metadata == out.doc IN
      IF ~HasKey(metadata, "target_directory")
      THEN MetaRaise(Err("KeyError", "target_directory"))
      ELSE IF metadata.v.target_directory.t = "null"
      THEN MetaRaise(Err("ValueError", "target_directory"))
      ELSE IF metadata.v.target_directory.t # "str"
      THEN MetaRaise(Err("ValueError", "target_directory"))
      ELSE PackagesOf(metadata, metadata.v.target_directory.v)

\* the outputs of `cargo metadata` the model draws from
MetaTargetDirs == {JNull, JInt(5), JStr(TargetDir)}

PkgApp == JObj([name |-> JStr("app")])

MetaPackageEntries ==
    {PkgApp, JObj([name |-> JNull]), JObj([name |-> JInt(7)]),
     JObj([version |-> JStr("0.1.0")]), JStr("app")}

MetaPackages ==
    {JNull, JList(<<>>), JList(<<PkgApp, PkgApp>>), PkgApp}
        \cup {JList(<<p>>) : p \in MetaPackageEntries}

MetadataDocs ==
    {JObj([target_directory |-> t, packages |-> p]) :
        t \in MetaTargetDirs, p \in MetaPackages}
        \cup {JObj([packages |-> p]) : p \in MetaPackages}
        \cup {JObj([target_directory |-> t]) : t \in MetaTargetDirs}

MetadataOutputs ==
    {[returncode |-> 0, doc |-> d] : d \in MetadataDocs}
        \cup {[returncode |-> 101, doc |-> JObj([target_directory |-> JNull])]}

\* ------------------------------------------------- the release listing

UrlGtk4 == JStr("https://github.com/wingtk/gvsbuild/releases/download/GTK4.zip")

Asset(name, url, ctype) ==
    JObj([name |-> JStr(name), browser_download_url |-> url,
          content_type |-> JStr(ctype)])

AssetGtk4 == Asset(<<"GTK4", "_Gvsbuild_x64.zip">>, UrlGtk4, "application/zip")

AssetGtk3 == Asset(<<"GTK3", "_Gvsbuild_x64.zip">>, UrlGtk4, "application/zip")

AssetGtk4Tar == Asset(<<"gvsbuild-", "GTK4", ".tar.gz">>, UrlGtk4, "application/gzip")

AssetGtk4NoUrl == Asset(<<"GTK4", "_Gvsbuild_x64.zip">>, JNull, "application/zip")

Assets == {AssetGtk4, AssetGtk3, AssetGtk4Tar, AssetGtk4NoUrl}

NoBody == JObj([message |-> JStr("Not Found")])

\* what requests.get returns (sent = FALSE: it raised instead)
Responses ==
    {[sent |-> TRUE, status |-> 200, body |-> JObj([assets |-> JList(a)])] :
        a \in SeqsUpTo(Assets, MaxAssets)}
        \cup {[sent |-> TRUE, status |-> 200, body |-> JObj([assets |-> JNull])],
              [sent |-> TRUE, status |-> 200, body |-> NoBody],
              [sent |-> TRUE, status |-> 404, body |-> NoBody],
              [sent |-> FALSE, status |-> 0, body |-> NoBody]}

NoResponse == [sent |-> FALSE, status |-> 0, body |-> NoBody]

\* "GTK4" in str(asset["name"])
NameHasGTK4(asset) == \E i \in DOMAIN asset.v.name.v : asset.v.name.v[i] = "GTK4"

\* filter(lambda asset: "GTK4" in str(asset["name"]), data["assets"])
RECURSIVE FilterGtk4(_)
FilterGtk4(assets) ==
    IF assets = <<>> THEN <<>>
    ELSE IF NameHasGTK4(assets[1])
         THEN <<assets[1]>> \o FilterGtk4(Tail(assets))
         ELSE FilterGtk4(Tail(assets))

\* CheckAsset without the check of the content type
CheckAssetAnyType(gtk_asset) ==
    IF gtk_asset.v.browser_download_url.t = "null"
    THEN SystemExit1("no browser_download_url")
    ELSE NoError

\* the checks on the one matching asset
CheckAsset(gtk_asset) ==
    IF gtk_asset.v.browser_download_url.t = "null"
    THEN SystemExit1("no browser_download_url")
    ELSE IF gtk_asset.v.content_type.v # "application/zip"
    THEN SystemExit1("content_type")
    ELSE NoError

\* the checks between the listing request and the archive download:
\* the exit or exception they end in, NoError when the download goes ahead
CheckListing(resp) ==
    IF ~resp.sent THEN Err("ConnectionError", "releases/latest")
    ELSE IF resp.status # 200 THEN SystemExit1("HTTP status code")
    ELSE IF ~HasKey(resp.body, "assets") THEN Err("KeyError", "assets")
    ELSE LET assets == resp.body.v.assets IN
      IF assets.t = "null" \/ Len(assets.v) = 0 THEN SystemExit1("no assets found")
      ELSE LET gtk_assets == FilterGtk4(assets.v) IN
        IF Len(gtk_assets) # 1 THEN SystemExit1("no assets with the name GTK4")
        ELSE CheckAsset(gtk_assets[1])

\* --------------------------------------------------- build_rust_binary

VarNames == {"PKG_CONFIG_PATH", "PATH", "LIB", "CARGO_HOME"}

Unset == <<>>

EmptyEnv == [n \in VarNames |-> Unset]

EnvFull ==
    [n \in VarNames |->
        CASE n = "PKG_CONFIG_PATH" -> <<<<<<"C:">>, <<"old">>, <<"pkgconfig">>>>>>
          [] n = "PATH" -> <<<<<<"C:">>, <<"Windows">>>>>>
          [] n = "LIB" -> <<<<<<"C:">>, <<"sdk">>, <<"lib">>>>>>
          [] n = "CARGO_HOME" -> <<<<<<"C:">>, <<"cargo">>>>>>]

\* the environments a process is started in
Envs ==
    {EnvFull, [EnvFull EXCEPT !["PKG_CONFIG_PATH"] = Unset],
     [EnvFull EXCEPT !["LIB"] = Unset]}

\* my_env with PATH assigned the toolkit directory instead of extended by it
my_env_path_replaced(parent, bin_dir) ==
    LET e1 == [parent EXCEPT !["PKG_CONFIG_PATH"] =
                  <<resolve(joinpath(bin_dir, <<Up, <<"lib">>, <<"pkgconfig">>>>))>>]
    IN IF parent["PATH"] = Unset THEN [error |-> Err("KeyError", "PATH"), env |-> e1]
       ELSE LET e2 == [e1 EXCEPT !["PATH"] = <<resolve(bin_dir)>>]
       IN IF parent["LIB"] = Unset THEN [error |-> Err("KeyError", "LIB"), env |-> e2]
          ELSE [error |-> NoError,
                env |-> [e2 EXCEPT !["LIB"] =
                    Append(e2["LIB"], resolve(joinpath(bin_dir, <<Up, <<"lib">>>>)))]]

\* my_env = os.environ.copy() and the three assignments to it:
\* the exception they raise, and the mapping handed to the subprocess
my_env(parent, bin_dir) ==
    LET e1 == [parent EXCEPT !["PKG_CONFIG_PATH"] =
                  <<resolve(joinpath(bin_dir, <<Up, <<"lib">>, <<"pkgconfig">>>>))>>]
    IN IF parent["PATH"] = Unset THEN [error |-> Err("KeyError", "PATH"), env |-> e1]
       ELSE LET e2 == [e1 EXCEPT !["PATH"] = Append(e1["PATH"], resolve(bin_dir))]
       IN IF parent["LIB"] = Unset THEN [error |-> Err("KeyError", "LIB"), env |-> e2]
          ELSE [error |-> NoError,
                env |-> [e2 EXCEPT !["LIB"] =
                    Append(e2["LIB"], resolve(joinpath(bin_dir, <<Up, <<"lib">>>>)))]]

ExeApp == joinpath(TargetDir, <<<<"release">>, <<"app", ".exe">>>>)

ExeHelper == joinpath(TargetDir, <<<<"release">>, <<"helper", ".exe">>>>)

Artifact(executable) ==
    JObj([reason |-> JStr("compiler-artifact"), executable |-> executable])

\* the JSON lines `cargo build --message-format json` prints
Messages ==
    {Artifact(JStr(ExeApp)), Artifact(JStr(ExeHelper)), Artifact(JNull),
     Artifact(JStr(<<>>)), Artifact(JInt(1)),
     JObj([reason |-> JStr("build-finished"), success |-> JInt(1)])}

BuildOutputs == SeqsUpTo(Messages, MaxMsgs)

\* the loop over text.splitlines() that collects the executables
RECURSIVE Binaries(_)
Binaries(lines) ==
    IF lines = <<>> THEN <<>>
    ELSE LET msg == lines[1] IN
      IF msg.v.reason.v # "compiler-artifact" THEN Binaries(Tail(lines))
      ELSE IF ~Truthy(msg.v.executable) \/ msg.v.executable.t # "str"
      THEN Binaries(Tail(lines))
      ELSE <<msg.v.executable.v>> \o Binaries(Tail(lines))

\* FindBinary without the assertion: the first executable found is returned
FindBinaryFirst(lines) ==
    LET binaries == Binaries(lines) IN
    IF Len(binaries) = 0 THEN [error |-> Err("IndexError", "binaries[0]"), path |-> NoPath]
    ELSE [error |-> NoError, path |-> binaries[1]]

\* assert len(binaries) == 1; return binaries[0]
FindBinary(lines) ==
    LET binaries == Binaries(lines) IN
    IF Len(binaries) # 1 THEN [error |-> Err("AssertionError", "len(binaries) == 1"),
                               path |-> NoPath]
    ELSE [error |-> NoError, path |-> binaries[1]]

\* how a `cargo build` subprocess ends: exit status 0, another exit status,
\* or it could not be started
ProcResults == {"ok", "nonzero", "nostart"}

\* the exception subprocess.run raises for the captured build (check=True)
CapturedError(result) ==
    CASE result = "ok" -> NoError
      [] result = "nonzero" -> Err("CalledProcessError", "captured build")
      [] result = "nostart" -> Err("FileNotFoundError", "captured build")

\* the exception subprocess.run raises for the re-run (no check)
RerunError(result) ==
    IF result = "nostart" THEN Err("FileNotFoundError", "re-run build") ELSE NoError

\* the try/except around the captured build: the invocations made and the
\* exception that leaves the except block
RunCargo(captured, rerun) ==
    IF CapturedError(captured) = NoError
    THEN [calls |-> <<[capture |-> TRUE, result |-> captured]>>, error |-> NoError]
    ELSE [calls |-> <<[capture |-> TRUE, result |-> captured],
                      [capture |-> FALSE, result |-> rerun]>>,
          error |-> IF RerunError(rerun) # NoError THEN RerunError(rerun)
                    ELSE CapturedError(captured)]

\* build_rust_binary: the environment, the invocations, the exception raised
\* and the path returned
build_rust_binary(parent, bin_dir, captured, rerun, stdout) ==
    LET e == my_env(parent, bin_dir) IN
    IF e.error # NoError
    THEN [error |-> e.error, env |-> EmptyEnv, calls |-> <<>>, path |-> NoPath,
          stdout |-> <<>>]
    ELSE LET c == RunCargo(captured, rerun) IN
      IF c.error # NoError
      THEN [error |-> c.error, env |-> e.env, calls |-> c.calls, path |-> NoPath,
            stdout |-> <<>>]
      ELSE LET b == FindBinary(stdout) IN
        [error |-> b.error, env |-> e.env, calls |-> c.calls, path |-> b.path,
         stdout |-> stdout]

\* ------------------------------------------------------------ the bundle

\* settings_write with the file opened for appending
settings_append(old) == old \o SettingsLines

\* settings_ini.open("w") and the two writes: the old content is truncated
settings_write(old) == SubSeq(old, 1, 0) \o SettingsLines

\* shutil.copy2(src, dir): the file lands in dir under its own name
CopyInto(files, dir, src) == files \cup {Append(dir, PathName(src))}

\* AlreadyDownloaded without the look at the cache directory
NeverDownloaded(dir) == FALSE

\* gtk_bin_dir.exists() of the cache directory: the release is taken as downloaded
AlreadyDownloaded(dir) == DirExists(dir)

\* BinDirMissing without the look at the directory
BinDirNeverMissing(dir) == FALSE

\* not gtk_bin_dir.exists() of the toolkit binary directory
BinDirMissing(dir) == ~DirExists(dir)

\* NextStatement with the build moved ahead of the bundle assembly
NextStatementBuildFirst(step) ==
    CASE step = "check_bin" -> "build"
      [] step = "build" -> "mkdir_bundle"
      [] step = "mkdir_bundle" -> "copy_dlls"
      [] step = "copy_dlls" -> "copy_gdbus"
      [] step = "copy_gdbus" -> "copy_schemas"
      [] step = "copy_schemas" -> "write_settings"
      [] step = "write_settings" -> "copy_binary"
      [] step = "copy_binary" -> "make_archive"

\* the statement of bundle() that follows a statement, from the check of the
\* toolkit directory on
NextStatement(step) ==
    CASE step = "check_bin" -> "mkdir_bundle"
      [] step = "mkdir_bundle" -> "copy_dlls"
      [] step = "copy_dlls" -> "copy_gdbus"
      [] step = "copy_gdbus" -> "copy_schemas"
      [] step = "copy_schemas" -> "write_settings"
      [] step = "write_settings" -> "build"
      [] step = "build" -> "copy_binary"
      [] step = "copy_binary" -> "make_archive"

\* --------------------------------------------------------------- states

\* args.download_gtk; --show-binary and --show-zip only open an Explorer
\* window on a file that exists by then, and change nothing the model holds
Args == [download_gtk : BOOLEAN]

NoArgs == [download_gtk |-> FALSE]

NoMetaOut == [returncode |-> 0, doc |-> JObj([target_directory |-> JNull])]

StaleDll == <<<<"old-gtk-3", ".dll">>>>

\* what the bundle directory may hold before the first run
BundleInits ==
    {[exists |-> FALSE, files |-> {}, text |-> <<>>],
     [exists |-> TRUE, files |-> {StaleDll, SettingsIni},
      text |-> <<"[Settings]", "gtk-font-name=Arial 12">>]}

\* what C:/gtk-build may hold
FixedTrees ==
    {[exists |-> FALSE, files |-> {}],
     [exists |-> TRUE, files |-> {DllGtk, DllGlib, GdbusExe, SchemasCompiled}]}

Init ==
    /\ pc = "idle"
    /\ runs = 0
    /\ args = NoArgs
    /\ environ = EmptyEnv
    /\ cargo_meta = NoMeta
    /\ gtk_bin_dir = NoPath
    /\ rust_bin = NoPath
    /\ exitCode = 0
    /\ raised = NoError
    /\ cacheExists = FALSE
    /\ cacheFiles = {}
    /\ \E t \in FixedTrees : gtkFixedExists = t.exists /\ gtkFixedFiles = t.files
    /\ \E b \in BundleInits :
        /\ bundleExists = b.exists
        /\ bundleFiles = b.files
        /\ settingsText = b.text
    /\ zipExists = FALSE
    /\ zipFiles = {}
    /\ metadataOut = NoMetaOut
    /\ response = NoResponse
    /\ buildStdout = <<>>
    /\ childEnv = EmptyEnv
    /\ cargoRuns = <<>>
    /\ net = <<>>
    /\ steps = <<>>
    /\ bundleAtStart = [exists |-> bundleExists, files |-> bundleFiles, text |-> settingsText]
    /\ cacheAtStart = FALSE
    /\ downloads = 0
    /\ extractions = 0

fsCache == <<cacheExists, cacheFiles, downloads, extractions>>

fsFixed == <<gtkFixedExists, gtkFixedFiles>>

fsBundle == <<bundleExists, bundleFiles, settingsText>>

fsZip == <<zipExists, zipFiles>>

locals == <<args, environ, cargo_meta, gtk_bin_dir, rust_bin>>

observed == <<metadataOut, response, buildStdout, childEnv, cargoRuns>>

history == <<runs, net, bundleAtStart, cacheAtStart>>

\* the statement ran and control goes on to the next one
Goto(step, next) ==
    /\ pc' = next
    /\ steps' = Append(steps, step)
    /\ UNCHANGED <<exitCode, raised>>

\* the statement called exit(1) or raised: the interpreter exits with code 1
Fail(step, e) ==
    /\ pc' = "exited"
    /\ steps' = Append(steps, step)
    /\ exitCode' = 1
    /\ raised' = e

\* a new process: `python bundle.py [flags]` (lines 132-152)
StartRun(a, env) ==
    /\ pc \in {"idle", "exited"}
    /\ runs < MaxRuns
    /\ runs' = runs + 1
    /\ pc' = "get_cargo_metadata"
    /\ args' = a
    /\ environ' = env
    /\ cargo_meta' = NoMeta
    /\ gtk_bin_dir' = NoPath
    /\ rust_bin' = NoPath
    /\ exitCode' = 0
    /\ raised' = NoError
    /\ metadataOut' = NoMetaOut
    /\ response' = NoResponse
    /\ buildStdout' = <<>>
    /\ childEnv' = EmptyEnv
    /\ cargoRuns' = <<>>
    /\ net' = <<>>
    /\ steps' = <<>>
    /\ bundleAtStart' = [exists |-> bundleExists, files |-> bundleFiles, text |-> settingsText]
    /\ cacheAtStart' = cacheExists
    /\ UNCHANGED <<fsCache, fsFixed, fsBundle, fsZip>>

\* cargo_meta = get_cargo_metadata() (line 153)
GetCargoMetadata(out) ==
    /\ pc = "get_cargo_metadata"
    /\ metadataOut' = out
    /\ LET r == get_cargo_metadata(out) IN
        /\ cargo_meta' = r.meta
        /\ IF r.error # NoError
           THEN Fail("get_cargo_metadata", r.error)
           ELSE Goto("get_cargo_metadata", "acquire")
    /\ UNCHANGED <<args, environ, gtk_bin_dir, rust_bin, response, buildStdout,
                   childEnv, cargoRuns, history, fsCache, fsFixed, fsBundle, fsZip>>

\* the choice of the toolkit directory (lines 155-166 and 228-231)
LocateGtk ==
    /\ pc = "acquire"
    /\ IF args.download_gtk
       THEN LET dir == joinpath(cargo_meta.target_directory, <<<<"gtk-from-github">>>>) IN
            IF AlreadyDownloaded(dir)
            THEN /\ gtk_bin_dir' = joinpath(dir, <<<<"bin">>>>)
                 /\ Goto("cache_hit", "check_bin")
            ELSE /\ gtk_bin_dir' = dir
                 /\ Goto("cache_miss", "request_listing")
       ELSE /\ gtk_bin_dir' = FixedGtkBin
            /\ Goto("fixed_path", "check_bin")
    /\ UNCHANGED <<args, environ, cargo_meta, rust_bin, observed, history,
                   fsCache, fsFixed, fsBundle, fsZip>>

\* the release-listing request and the checks on its answer (lines 167-217)
RequestListing(resp) ==
    /\ pc = "request_listing"
    /\ response' = resp
    /\ net' = Append(net, "releases/latest")
    /\ LET e == CheckListing(resp) IN
        IF e # NoError THEN Fail("request_listing", e)
        ELSE Goto("request_listing", "download")
    /\ UNCHANGED <<locals, metadataOut, buildStdout, childEnv, cargoRuns, runs,
                   bundleAtStart, cacheAtStart, fsCache, fsFixed,
                   fsBundle, fsZip>>

\* mkdir of the cache directory, the archive download and extractall
\* (lines 219-228): the download fails, or k members are written before
\* extractall fails or, with all of them written, returns
DownloadAndExtract(fetched, k) ==
    /\ pc = "download"
    /\ cacheExists' = TRUE
    /\ net' = Append(net, "browser_download_url")
    /\ downloads' = downloads + 1
    /\ IF ~fetched
       THEN /\ k = 0
            /\ UNCHANGED <<cacheFiles, extractions, gtk_bin_dir>>
            /\ Fail("download", Err("URLError", "browser_download_url"))
       ELSE /\ cacheFiles' = cacheFiles \cup Range(SubSeq(ArchiveMembers, 1, k))
            /\ IF k < Len(ArchiveMembers)
               THEN /\ UNCHANGED <<extractions, gtk_bin_dir>>
                    /\ Fail("download", Err("OSError", "extractall"))
               ELSE /\ extractions' = extractions + 1
                    /\ gtk_bin_dir' = joinpath(gtk_bin_dir, <<<<"bin">>>>)
                    /\ Goto("download", "check_bin")
    /\ UNCHANGED <<args, environ, cargo_meta, rust_bin, observed, runs,
                   bundleAtStart, cacheAtStart, fsFixed, fsBundle, fsZip>>

\* if not gtk_bin_dir.exists(): exit(1) (lines 233-249)
CheckBinDir ==
    /\ pc = "check_bin"
    /\ IF BinDirMissing(gtk_bin_dir)
       THEN Fail("check_bin", SystemExit1("Could not find GTK bin folder"))
       ELSE Goto("check_bin", NextStatement("check_bin"))
    /\ UNCHANGED <<locals, observed, history, fsCache, fsFixed, fsBundle, fsZip>>

\* bundle_dir.mkdir(parents=True, exist_ok=True) (lines 251-257)
CreateBundleDir ==
    /\ pc = "mkdir_bundle"
    /\ bundleExists' = TRUE
    /\ Goto("mkdir_bundle", NextStatement("mkdir_bundle"))
    /\ UNCHANGED <<locals, observed, history, fsCache, fsFixed, bundleFiles,
                   settingsText, fsZip>>

\* for dll in gtk_bin_dir.glob("*.dll"): shutil.copy2(dll, bundle_dir) (lines 259-264)
CopyDlls ==
    /\ pc = "copy_dlls"
    /\ bundleFiles' = bundleFiles \cup {<<PathName(dll)>> : dll \in GlobDll(gtk_bin_dir)}
    /\ Goto("copy_dlls", NextStatement("copy_dlls"))
    /\ UNCHANGED <<locals, observed, history, fsCache, fsFixed, bundleExists,
                   settingsText, fsZip>>

\* shutil.copy2(gdbus_exe, bundle_dir) (lines 266-271)
CopyGdbus ==
    /\ pc = "copy_gdbus"
    /\ LET gdbus_exe == joinpath(gtk_bin_dir, <<<<"gdbus", ".exe">>>>) IN
        IF FileExists(gdbus_exe)
        THEN /\ bundleFiles' = CopyInto(bundleFiles, <<>>, gdbus_exe)
             /\ Goto("copy_gdbus", NextStatement("copy_gdbus"))
        ELSE /\ UNCHANGED bundleFiles
             /\ Fail("copy_gdbus", Err("FileNotFoundError", "gdbus.exe"))
    /\ UNCHANGED <<locals, observed, history, fsCache, fsFixed, bundleExists,
                   settingsText, fsZip>>

\* shutil.copy2(glib_compiled_schemas, schema_out_dir) (lines 273-282)
CopySchemas ==
    /\ pc = "copy_schemas"
    /\ LET glib_compiled_schemas ==
            resolve(joinpath(gtk_bin_dir,
                <<Up, <<"share">>, <<"glib-2.0">>, <<"schemas">>,
                  <<"gschemas", ".compiled">>>>))
       IN IF FileExists(glib_compiled_schemas)
          THEN /\ bundleFiles' = CopyInto(bundleFiles, SchemasOutDir, glib_compiled_schemas)
               /\ Goto("copy_schemas", NextStatement("copy_schemas"))
          ELSE /\ UNCHANGED bundleFiles
               /\ Fail("copy_schemas", Err("FileNotFoundError", "gschemas.compiled"))
    /\ UNCHANGED <<locals, observed, history, fsCache, fsFixed, bundleExists,
                   settingsText, fsZip>>

\* settings.ini is opened for writing and gets its two lines (lines 284-292)
WriteSettings ==
    /\ pc = "write_settings"
    /\ bundleFiles' = bundleFiles \cup {SettingsIni}
    /\ settingsText' = settings_write(IF SettingsIni \in bundleFiles THEN settingsText ELSE <<>>)
    /\ Goto("write_settings", NextStatement("write_settings"))
    /\ UNCHANGED <<locals, observed, history, fsCache, fsFixed, bundleExists, fsZip>>

\* rust_bin = build_rust_binary(gtk_bin_dir=str(gtk_bin_dir)) (lines 301-305)
BuildRustBinary(captured, rerun, stdout) ==
    /\ pc = "build"
    /\ captured = "ok" => rerun = "ok"
    /\ captured # "ok" => stdout = <<>>
    /\ LET r == build_rust_binary(environ, gtk_bin_dir, captured, rerun, stdout) IN
        /\ childEnv' = r.env
        /\ cargoRuns' = r.calls
        /\ buildStdout' = r.stdout
        /\ rust_bin' = r.path
        /\ IF r.error # NoError THEN Fail("build", r.error)
           ELSE Goto("build", NextStatement("build"))
    /\ UNCHANGED <<args, environ, cargo_meta, gtk_bin_dir, metadataOut, response,
                   history, fsCache, fsFixed, fsBundle, fsZip>>

\* shutil.copy2(rust_bin, rust_bin_to) and --show-binary (lines 307-321)
CopyBinary ==
    /\ pc = "copy_binary"
    /\ bundleFiles' = bundleFiles \cup {<<PathName(rust_bin)>>}
    /\ Goto("copy_binary", NextStatement("copy_binary"))
    /\ UNCHANGED <<locals, observed, runs, net, bundleAtStart, cacheAtStart,
                   fsCache, fsFixed, bundleExists, settingsText, fsZip>>

\* shutil.make_archive, --show-zip and the end of bundle() (lines 323-335)
MakeArchive ==
    /\ pc = "make_archive"
    /\ zipExists' = TRUE
    /\ zipFiles' = bundleFiles
    /\ pc' = "exited"
    /\ steps' = Append(steps, "make_archive")
    /\ exitCode' = 0
    /\ UNCHANGED <<raised, locals, observed, runs, net, bundleAtStart, cacheAtStart,
                   fsCache, fsFixed, fsBundle>>

Next ==
    \/ \E a \in Args, env \in Envs : StartRun(a, env)
    \/ \E out \in MetadataOutputs : GetCargoMetadata(out)
    \/ LocateGtk
    \/ \E resp \in Responses : RequestListing(resp)
    \/ \E fetched \in BOOLEAN, k \in 0..Len(ArchiveMembers) : DownloadAndExtract(fetched, k)
    \/ CheckBinDir
    \/ CreateBundleDir
    \/ CopyDlls
    \/ CopyGdbus
    \/ CopySchemas
    \/ WriteSettings
    \/ \E captured \in ProcResults, rerun \in ProcResults, stdout \in BuildOutputs :
        BuildRustBinary(captured, rerun, stdout)
    \/ CopyBinary
    \/ MakeArchive

Spec == Init /\ [][Next]_vars

\* ---------------------------------------------------------------- claims

Ran(step) == step \in Range(steps)

Exited1 == pc = "exited" /\ exitCode = 1

AllMembers == Range(ArchiveMembers)

\* the files of the toolkit tree this run bundles from, relative to its root
ToolkitTree == IF args.download_gtk THEN cacheFiles ELSE gtkFixedFiles

ToolkitDllNames ==
    {<<f[2]>> : f \in {g \in ToolkitTree : Len(g) = 2 /\ g[1] = <<"bin">>
                                            /\ g[2][Len(g[2])] = ".dll"}}

ToolkitBinExists ==
    IF args.download_gtk THEN \E f \in cacheFiles : f[1] = <<"bin">>
    ELSE gtkFixedExists

\* the files bundle() copies or writes before the build
AssembledFiles ==
    ToolkitDllNames
        \cup {<<<<"gdbus", ".exe">>>>,
              <<<<"share">>, <<"glib-2.0">>, <<"schemas">>, <<"gschemas", ".compiled">>>>,
              <<<<"share">>, <<"gtk-4.0">>, <<"settings", ".ini">>>>}

\* ---- C1
C1_Listed == Ran("cache_miss") /\ Ran("request_listing") /\ response.sent

C1_Gtk4Assets ==
    LET a == response.body.v.assets.v IN
    {i \in DOMAIN a : \E k \in DOMAIN a[i].v.name.v : a[i].v.name.v[k] = "GTK4"}

C1_NoAssets ==
    \/ "assets" \notin DOMAIN response.body.v
    \/ response.body.v.assets.t = "null"
    \/ response.body.v.assets.v = <<>>

C1_WrongAsset ==
    \A i \in C1_Gtk4Assets :
        LET asset == response.body.v.assets.v[i].v IN
        \/ asset.browser_download_url.t = "null"
        \/ asset.content_type.v # "application/zip"

C1_BadListing ==
    \/ response.status # 200
    \/ C1_NoAssets
    \/ Cardinality(C1_Gtk4Assets) # 1
    \/ C1_WrongAsset

\* C1: in a --download-gtk run that finds no cache directory, a listing
\* response with a status other than 200, with no assets, with a number of
\* GTK4 assets other than one, or whose GTK4 asset has no download URL or a
\* content type other than application/zip ends the run with exit code 1,
\* and the archive download is not attempted in that run.
C1_BadListingExitsBeforeDownload ==
    (C1_Listed /\ C1_BadListing) =>
        /\ Exited1
        /\ Last(steps) = "request_listing"
        /\ "browser_download_url" \notin Range(net)
        /\ ~Ran("download")
        /\ ~cacheExists

C1_Witness ==
    /\ C1_Listed
    /\ response.status = 200
    /\ ~C1_NoAssets
    /\ Cardinality(C1_Gtk4Assets) = 1
    /\ \E i \in C1_Gtk4Assets :
        LET asset == response.body.v.assets.v[i].v IN
        /\ asset.browser_download_url.t # "null"
        /\ asset.content_type.v # "application/zip"
    /\ Exited1
    /\ net = <<"releases/latest">>

C3_IsBinary(msg) ==
    /\ msg.v.reason.v = "compiler-artifact"
    /\ "executable" \in DOMAIN msg.v
    /\ msg.v.executable.t = "str"
    /\ msg.v.executable.v # <<>>

C3_Found == {i \in DOMAIN buildStdout : C3_IsBinary(buildStdout[i])}

C3_Captured ==
    Ran("build") /\ Len(cargoRuns) = 1 /\ cargoRuns[1].capture /\ cargoRuns[1].result = "ok"

\* C3: the build step returns a path only when the captured output holds
\* exactly one compiler-artifact message with a non-empty string executable,
\* and then returns that executable; with none or more than one the run
\* fails, and neither copies the binary nor creates the archive.
C3_ExactlyOneArtifact ==
    /\ rust_bin # NoPath =>
        (C3_Captured /\ Cardinality(C3_Found) = 1)
    /\ (C3_Captured /\ Cardinality(C3_Found) = 1) =>
        /\ \A i \in C3_Found : rust_bin = buildStdout[i].v.executable.v
        /\ ~(pc = "exited" /\ Last(steps) = "build")
    /\ (C3_Captured /\ Cardinality(C3_Found) # 1) =>
        /\ Exited1
        /\ raised = Err("AssertionError", "len(binaries) == 1")
        /\ rust_bin = NoPath
        /\ ~Ran("copy_binary")
        /\ ~Ran("make_archive")

C3_Witness ==
    /\ C3_Captured
    /\ Cardinality(C3_Found) = 2
    /\ Exited1
    /\ Last(steps) = "build"

\* ---- C4
C4_Succeeded == pc = "exited" /\ exitCode = 0

C4_Expected == AssembledFiles \cup {<<rust_bin[Len(rust_bin)]>>}

\* C4 as stated: after every successful run the bundle directory holds
\* exactly the toolkit DLLs, gdbus.exe, the compiled schemas, settings.ini
\* with its two lines and the built binary, and no other file.
C4_ExactlyTheseFiles ==
    C4_Succeeded =>
        /\ bundleFiles = C4_Expected
        /\ settingsText = <<"[Settings]", "gtk-font-name=Segoe UI 10">>

\* C4 amended: after every successful run the bundle directory holds every
\* one of these files, settings.ini holds exactly the two lines, and any
\* other file in it was there before the run.
C4_TheseFilesAndOldOnes ==
    C4_Succeeded =>
        /\ bundleExists
        /\ C4_Expected \subseteq bundleFiles
        /\ bundleFiles \subseteq C4_Expected \cup bundleAtStart.files
        /\ settingsText = <<"[Settings]", "gtk-font-name=Segoe UI 10">>
        /\ bundleAtStart.files = {} => bundleFiles = C4_Expected

C4_Witness ==
    /\ C4_Succeeded
    /\ bundleAtStart.exists
    /\ bundleAtStart.text = <<"[Settings]", "gtk-font-name=Arial 12">>
    /\ \E f \in bundleFiles : f \notin C4_Expected

\* ---- C5
C5_BundleSteps ==
    {"mkdir_bundle", "copy_dlls", "copy_gdbus", "copy_schemas", "write_settings",
     "build", "copy_binary", "make_archive"}

\* C5: in both variants, when the toolkit binary directory does not exist
\* the run exits with code 1 at the check, before the bundle directory is
\* created, before any file is copied and before the build is invoked; no
\* such step runs unless the directory exists.
C5_NoCopyWithoutToolkit ==
    /\ (Ran("check_bin") /\ ~ToolkitBinExists) =>
        /\ Exited1
        /\ raised.type = "SystemExit"
        /\ Last(steps) = "check_bin"
        /\ bundleExists = bundleAtStart.exists
        /\ bundleFiles = bundleAtStart.files
        /\ cargoRuns = <<>>
    /\ (\E st \in C5_BundleSteps : Ran(st)) => (Ran("check_bin") /\ ToolkitBinExists)

C5_Witness ==
    /\ args.download_gtk
    /\ Ran("cache_hit")
    /\ ~ToolkitBinExists
    /\ Exited1
    /\ Last(steps) = "check_bin"
    /\ ~bundleExists

\* ---- C6
C6_Queried == Ran("get_cargo_metadata") /\ metadataOut.returncode = 0

C6_Doc == metadataOut.doc.v

C6_NoTargetDir ==
    "target_directory" \notin DOMAIN C6_Doc \/ C6_Doc.target_directory.t # "str"

C6_NoPackages == "packages" \notin DOMAIN C6_Doc \/ C6_Doc.packages.t = "null"

C6_WrongLength == ~C6_NoPackages /\ C6_Doc.packages.t = "list" /\ Len(C6_Doc.packages.v) # 1

C6_WellFormed ==
    /\ ~C6_NoTargetDir
    /\ ~C6_NoPackages
    /\ C6_Doc.packages.t = "list"
    /\ Len(C6_Doc.packages.v) = 1
    /\ C6_Doc.packages.v[1].t = "obj"
    /\ "name" \in DOMAIN C6_Doc.packages.v[1].v
    /\ C6_Doc.packages.v[1].v.name.t = "str"

\* the query raised an error that names the field, and nothing ran after it
C6_StoppedAt(field) ==
    /\ Exited1
    /\ raised.type \in {"KeyError", "ValueError"}
    /\ raised.what = field
    /\ steps = <<"get_cargo_metadata">>
    /\ net = <<>>
    /\ cargoRuns = <<>>
    /\ cacheExists = cacheAtStart
    /\ bundleExists = bundleAtStart.exists
    /\ bundleFiles = bundleAtStart.files

\* C6: for a well-formed metadata document the query returns its
\* target_directory and the name of its single package; for a document
\* with target_directory missing or no string, with packages missing, or with
\* packages of a length other than 1, the query fails with an error naming
\* that field and no later step of the pipeline executes.
C6_MetadataPairOrError ==
    C6_Queried =>
        /\ C6_WellFormed =>
            /\ cargo_meta = [target_directory |-> C6_Doc.target_directory.v,
                             package_name |-> C6_Doc.packages.v[1].v.name.v]
            /\ ~(pc = "exited" /\ steps = <<"get_cargo_metadata">>)
        /\ C6_NoTargetDir => C6_StoppedAt("target_directory")
        /\ (~C6_NoTargetDir /\ (C6_NoPackages \/ C6_WrongLength)) => C6_StoppedAt("packages")

C6_Witness ==
    /\ C6_Queried
    /\ ~C6_NoTargetDir
    /\ C6_WrongLength
    /\ Len(C6_Doc.packages.v) = 2
    /\ C6_StoppedAt("packages")

\* ---- C7
C7_Three == {"PKG_CONFIG_PATH", "PATH", "LIB"}

C7_GtkRoot == SubSeq(gtk_bin_dir, 1, Len(gtk_bin_dir) - 1)

\* the value is kept and one entry is added behind it
C7_Extended(old, new) == Len(new) = Len(old) + 1 /\ SubSeq(new, 1, Len(old)) = old

\* C7 as stated: the environment of the build subprocess differs from the
\* parent's only in PKG_CONFIG_PATH, PATH and LIB, and each of the three
\* keeps its previous value and is extended.
C7_AllThreeExtended ==
    cargoRuns # <<>> =>
        \A n \in VarNames :
            IF n \in C7_Three THEN C7_Extended(environ[n], childEnv[n])
            ELSE childEnv[n] = environ[n]

\* C7 amended: when PATH and LIB are set in the parent environment, the
\* environment of the build subprocess differs from it only in
\* PKG_CONFIG_PATH, PATH and LIB; PATH and LIB keep their value and are
\* extended with the toolkit's bin and lib directories, PKG_CONFIG_PATH is
\* replaced by the toolkit's lib/pkgconfig directory; when PATH or LIB is
\* unset the build step raises KeyError and starts no subprocess; the
\* parent's own environment is unchanged by the build step.
C7_PathsExtendedPkgConfigReplaced ==
    [][pc = "build" =>
        /\ environ' = environ
        /\ IF environ["PATH"] # <<>> /\ environ["LIB"] # <<>>
           THEN /\ cargoRuns' # <<>>
                /\ \A n \in VarNames \ C7_Three : childEnv'[n] = environ[n]
                /\ childEnv'["PATH"] = environ["PATH"] \o <<gtk_bin_dir>>
                /\ childEnv'["LIB"] = environ["LIB"] \o <<C7_GtkRoot \o <<<<"lib">>>>>>
                /\ childEnv'["PKG_CONFIG_PATH"] =
                        <<C7_GtkRoot \o <<<<"lib">>, <<"pkgconfig">>>>>>
           ELSE /\ cargoRuns' = <<>>
                /\ pc' = "exited"
                /\ exitCode' = 1
                /\ raised'.type = "KeyError"
                /\ raised'.what \in {"PATH", "LIB"}]_vars

C7_Witness ==
    /\ cargoRuns # <<>>
    /\ environ["PKG_CONFIG_PATH"] = <<<<<<"C:">>, <<"old">>, <<"pkgconfig">>>>>>
    /\ childEnv["PKG_CONFIG_PATH"] = <<C7_GtkRoot \o <<<<"lib">>, <<"pkgconfig">>>>>>
    /\ C7_Extended(environ["PATH"], childEnv["PATH"])
    /\ C7_Extended(environ["LIB"], childEnv["LIB"])

\* ---- C8
C8_Rank(step) ==
    CASE step = "get_cargo_metadata" -> 1
      [] step \in {"cache_hit", "cache_miss", "fixed_path"} -> 2
      [] step = "request_listing" -> 3
      [] step = "download" -> 4
      [] step = "check_bin" -> 5
      [] step = "mkdir_bundle" -> 6
      [] step = "copy_dlls" -> 7
      [] step = "copy_gdbus" -> 8
      [] step = "copy_schemas" -> 9
      [] step = "write_settings" -> 10
      [] step = "build" -> 11
      [] step = "copy_binary" -> 12
      [] step = "make_archive" -> 13

C8_BundleWrites ==
    {"copy_dlls", "copy_gdbus", "copy_schemas", "write_settings", "copy_binary"}

C8_BuildSucceeded ==
    /\ Ran("build")
    /\ ~(pc = "exited" /\ Last(steps) = "build")
    /\ cargoRuns # <<>>
    /\ cargoRuns[1].result = "ok"

C8_BuildFailed == Ran("build") /\ pc = "exited" /\ Last(steps) = "build"

\* C8 as stated: nothing is copied or written into the bundle directory
\* before the build has completed successfully, so a run whose build fails
\* leaves the contents of the bundle directory as they were before the run.
C8_NothingWrittenBeforeBuild ==
    /\ \A i \in DOMAIN steps :
        steps[i] \in C8_BundleWrites => \E j \in 1..(i - 1) : steps[j] = "build"
    /\ C8_BuildFailed =>
        (bundleFiles = bundleAtStart.files /\ settingsText = bundleAtStart.text)

\* C8 amended: the steps of a run execute in the order toolkit acquisition,
\* copy of the toolkit files and settings.ini into the bundle directory,
\* native build, copy of the built binary, zip: the built binary is not
\* copied and the archive is not created before the build has completed
\* successfully, and a run whose build fails leaves in the bundle directory
\* what it held before the run plus the toolkit files and settings.ini.
C8_ToolkitFilesThenBuildThenBinary ==
    /\ \A i, j \in DOMAIN steps : i < j => C8_Rank(steps[i]) < C8_Rank(steps[j])
    /\ Ran("build") =>
        \A st \in {"check_bin", "mkdir_bundle", "copy_dlls", "copy_gdbus",
                   "copy_schemas", "write_settings"} : Ran(st)
    /\ (Ran("copy_binary") \/ Ran("make_archive")) => C8_BuildSucceeded
    /\ C8_BuildFailed =>
        /\ Exited1
        /\ bundleFiles = bundleAtStart.files \cup AssembledFiles
        /\ settingsText = <<"[Settings]", "gtk-font-name=Segoe UI 10">>

C8_Witness ==
    /\ C8_BuildFailed
    /\ cargoRuns # <<>>
    /\ cargoRuns[1].result = "nonzero"
    /\ bundleAtStart.files = {}
    /\ bundleFiles = AssembledFiles

\* ---- C9
C9_CapturedFailed == cargoRuns # <<>> /\ cargoRuns[1].result # "ok"

C9_Original ==
    Err(IF cargoRuns[1].result = "nonzero" THEN "CalledProcessError"
        ELSE "FileNotFoundError", "captured build")

\* C9: when the captured build fails, the build is re-run exactly once
\* without capture and the original failure is re-raised whatever the
\* re-run's outcome; the build tool is invoked at most twice per run, and
\* such a run neither copies the binary nor creates the archive.
C9_OriginalFailureReraised ==
    /\ Len(cargoRuns) <= 2
    /\ C9_CapturedFailed =>
        /\ Len(cargoRuns) = 2
        /\ cargoRuns[1].capture
        /\ ~cargoRuns[2].capture
        /\ Exited1
        /\ raised = C9_Original
        /\ ~Ran("copy_binary")
        /\ ~Ran("make_archive")

\* ---- C10
\* C10: the cache directory exists at the start of a run only if an
\* earlier run extracted the archive into it in full, so a run that skips
\* the download finds the complete toolkit there.
C10_CachePresentOnlyIfComplete ==
    /\ (pc # "idle" /\ cacheAtStart) => extractions >= 1
    /\ Ran("cache_hit") => cacheFiles = AllMembers

====
